---- MODULE Spec2Model ----
(***************************************************************************)
(* ChatInterface (src/unnamed/part_000): the React component that holds    *)
(* the transcript, the draft, the loading flag and the last error, and its *)
(* one asynchronous handler, handleSubmit.                                 *)
(*                                                                         *)
(* Texts are sequences of one-character strings, so that trimming and      *)
(* prefixing are computed, not assumed.  The hook state (messages, input,  *)
(* isLoading, error) is the state React holds with every queued update     *)
(* applied; closure is what the handleSubmit of the last render captured   *)
(* (lines 20-21 are consts of one render).  A render is a step of React's  *)
(* scheduler, not of the handler.                                          *)
(***************************************************************************)
EXTENDS Integers, Sequences, FiniteSets

\* ------------------------------------------------------------------ bounds
MaxSubmits == 2      \* accepted submissions (fetch calls) explored
MinClock == 9        \* first clock reading explored
MaxClock == 10       \* last clock reading explored

\* ------------------------------------------------------------------- texts
Null == <<"null">>             \* JS null, distinct from every text
Undefined == <<"undefined">>   \* a JSON field that is missing

Drafts == { <<>>, <<" ">>, <<"a", " ">> }
Details == { <<>>, <<"d">> }
Responses == { <<"r">> }
Descriptions == { <<"n">> }

IsSpace(c) == c = " "

RECURSIVE TrimStart(_)
TrimStart(s) ==
  IF s = <<>> THEN s
  ELSE IF IsSpace(Head(s)) THEN TrimStart(Tail(s)) ELSE s

RECURSIVE TrimEnd(_)
TrimEnd(s) ==
  IF s = <<>> THEN s
  ELSE IF IsSpace(s[Len(s)]) THEN TrimEnd(SubSeq(s, 1, Len(s) - 1)) ELSE s

TrimNone(s) == s

\* String.prototype.trim
Trim(s) == TrimEnd(TrimStart(s))

Digit(n) == CASE n = 0 -> "0" [] n = 1 -> "1" [] n = 2 -> "2" [] n = 3 -> "3"
              [] n = 4 -> "4" [] n = 5 -> "5" [] n = 6 -> "6" [] n = 7 -> "7"
              [] n = 8 -> "8" [] n = 9 -> "9"

\* Number.prototype.toString of a non-negative integer
RECURSIVE ToString(_)
ToString(n) == IF n < 10 THEN <<Digit(n)>> ELSE ToString(n \div 10) \o <<Digit(n % 10)>>

\* 'An unknown error occurred.'
UnknownError ==
  <<"A","n"," ","u","n","k","n","o","w","n"," ","e","r","r","o","r"," ",
    "o","c","c","u","r","r","e","d",".">>

\* the message of the SyntaxError that response.json() rejects with
\* ('Unexpected end of JSON input')
JsonSyntaxError ==
  <<"U","n","e","x","p","e","c","t","e","d"," ","e","n","d"," ","o","f"," ",
    "J","S","O","N"," ","i","n","p","u","t">>

ErrorPrefix == <<"E","r","r","o","r",":"," ">>

\* --------------------------------------------------------------- messages
UserMessageTrimmed(now, text) ==
  [id |-> ToString(now), role |-> "user", content |-> Trim(text)]

UserMessage(now, text) ==
  [id |-> ToString(now), role |-> "user", content |-> text]

BotMessage(now, data) ==
  [id |-> ToString(now + 1), role |-> "bot", content |-> data.response]

ErrorContentBare(m) == m

\* `Error: ${err.message}`
ErrorContent(m) == ErrorPrefix \o m

ErrorMessage(now, m) ==
  [id |-> ToString(now + 1), role |-> "bot", content |-> ErrorContent(m)]

\* ------------------------------------------------------ network outcomes
\* What one fetch can come to: the promise rejects (transport failure), or
\* it resolves with a response whose status is ok or not and whose body
\* parses as JSON or not.
NoBody == [parses |-> FALSE, detail |-> Undefined, response |-> Undefined]

Bodies ==
  { NoBody } \cup
  { [parses |-> TRUE, detail |-> d, response |-> Undefined] :
      d \in Details \cup {Undefined} } \cup
  { [parses |-> TRUE, detail |-> Undefined, response |-> r] : r \in Responses }

Outcomes ==
  { [kind |-> "reject", ok |-> FALSE, body |-> NoBody, description |-> d] :
      d \in Descriptions } \cup
  { [kind |-> "response", ok |-> k, body |-> b, description |-> Undefined] :
      k \in BOOLEAN, b \in Bodies }

\* errorData.detail || 'An unknown error occurred.'
DetailOrFallback(errorData) ==
  IF errorData.detail = Undefined \/ errorData.detail = <<>>
  THEN UnknownError ELSE errorData.detail

\* does the try block throw?
Throws(o) == o.kind = "reject" \/ ~o.body.parses \/ ~o.ok

\* err.message in the catch block
ErrMessage(o) ==
  IF o.kind = "reject" THEN o.description
  ELSE IF ~o.body.parses THEN JsonSyntaxError
  ELSE DetailOrFallback(o.body)

FinallySkippedOnThrow(loading, threw) == IF threw THEN loading ELSE FALSE

\* finally { setIsLoading(false) }
Finally(loading, threw) == FALSE

\* ------------------------------------------------------------------ state
VARIABLES
  messages,   \* useState<Message[]>([])
  input,      \* useState('')
  isLoading,  \* useState(false)
  error,      \* useState<string | null>(null)
  closure,    \* input and isLoading as captured by the last render
  dirty,      \* the render React owes: "none", "sync" (after a submit
              \* event) or "default" (after a network continuation)
  inflight,   \* fetch calls that have not settled: [rid, query]
  nextRid,    \* number of fetch calls issued
  clock,      \* last reading of Date.now()
  owner,      \* history: owner[i] is the fetch call messages[i] belongs to
  ev          \* history: the event the last step delivered

vars == <<messages, input, isLoading, error, closure, dirty, inflight,
          nextRid, clock, owner, ev>>

NoOutcome == [kind |-> "none", ok |-> FALSE, body |-> NoBody, description |-> Undefined]

Event(type, rid, outcome) == [type |-> type, rid |-> rid, outcome |-> outcome]

Init ==
  /\ messages = <<>>
  /\ input = <<>>
  /\ isLoading = FALSE
  /\ error = Null
  /\ closure = [input |-> <<>>, isLoading |-> FALSE]
  /\ dirty = "none"
  /\ inflight = {}
  /\ nextRid = 0
  /\ clock = MinClock
  /\ owner = <<>>
  /\ ev = Event("init", 0, NoOutcome)

\* -------------------------------------------------------------- operations
\* onChange of the controlled input: setInput(e.target.value).  The control
\* is disabled while the rendered isLoading is true.  React re-renders a
\* controlled input synchronously at the end of its change event; updates
\* queued by a network continuation stay queued.
onChange(text) ==
  /\ ~closure.isLoading
  /\ dirty # "sync"
  /\ input' = text
  /\ closure' = [input |-> text, isLoading |-> closure.isLoading]
  /\ ev' = Event("change", 0, NoOutcome)
  /\ UNCHANGED <<messages, isLoading, error, dirty, inflight, nextRid, clock, owner>>

\* handleSubmit up to the await of fetch.  input and isLoading are the
\* values the handler's render captured.
handleSubmit ==
  /\ ev' = Event("submit", 0, NoOutcome)
  /\ IF Trim(closure.input) = <<>> \/ closure.isLoading
     THEN UNCHANGED <<messages, input, isLoading, error, closure, dirty,
                      inflight, nextRid, clock, owner>>
     ELSE /\ nextRid < MaxSubmits
          /\ \E now \in clock .. MaxClock :
               /\ clock' = now
               /\ messages' = Append(messages, UserMessage(now, closure.input))
          /\ input' = <<>>
          /\ isLoading' = TRUE
          /\ error' = Null
          /\ nextRid' = nextRid + 1
          /\ inflight' = inflight \cup {[rid |-> nextRid + 1, query |-> closure.input]}
          /\ owner' = Append(owner, nextRid + 1)
          /\ dirty' = "sync"
          /\ UNCHANGED closure

\* handleSubmit from the settlement of its fetch to its end.  The render
\* owed by the submit event is a microtask, so it has run by then.
Settle(req, o) ==
  /\ req \in inflight
  /\ dirty # "sync"
  /\ ev' = Event("settle", req.rid, o)
  /\ inflight' = inflight \ {req}
  /\ \E now \in clock .. MaxClock :
       /\ clock' = now
       /\ IF Throws(o)
          THEN /\ error' = ErrMessage(o)
               /\ messages' = Append(messages, ErrorMessage(now, ErrMessage(o)))
          ELSE /\ error' = error
               /\ messages' = Append(messages, BotMessage(now, o.body))
  /\ owner' = Append(owner, req.rid)
  /\ isLoading' = Finally(isLoading, Throws(o))
  /\ dirty' = "default"
  /\ UNCHANGED <<input, closure, nextRid>>

SettleAny == \E req \in inflight : \E o \in Outcomes : Settle(req, o)

\* React renders ChatInterface again: a new handleSubmit captures the state.
Render ==
  /\ dirty # "none"
  /\ closure' = [input |-> input, isLoading |-> isLoading]
  /\ dirty' = "none"
  /\ ev' = Event("render", 0, NoOutcome)
  /\ UNCHANGED <<messages, input, isLoading, error, inflight, nextRid, clock, owner>>

Next ==
  \/ \E text \in Drafts : onChange(text)
  \/ handleSubmit
  \/ SettleAny
  \/ Render

Spec == Init /\ [][Next]_vars

\* Submit events delivered as separate browser tasks: the render a submit
\* owes is a microtask, so it has run before the next task's event.
TaskSubmit == dirty # "sync" /\ handleSubmit

TaskNext ==
  \/ \E text \in Drafts : onChange(text)
  \/ TaskSubmit
  \/ SettleAny
  \/ Render

TaskSpec == Init /\ [][TaskNext]_vars

\* the scheduling the liveness claim assumes: React runs every render it
\* owes, and every issued fetch resolves or rejects
FairSpec == Spec /\ WF_vars(Render) /\ WF_vars(SettleAny)

\* ----------------------------------------------------------------- claims
\* vocabulary of the claims, stated without the operators of the model
IsBlank(s) == \A i \in 1 .. Len(s) : s[i] = " "

Last(s) == s[Len(s)]

Extends(old, new) == Len(new) = Len(old) + 1 /\ SubSeq(new, 1, Len(old)) = old

\* the draft is the text in the input control, which is the input of the
\* last render
Draft == closure.input

\* the Idle state of the submission state machine
Idle == inflight = {} /\ ~isLoading /\ ~closure.isLoading

MessagesOf(rid, msgs, own) == { i \in 1 .. Len(msgs) : own[i] = rid }

\* C1: at most one request is outstanding in every reachable state, and a
\* submit delivered while a request is in flight leaves the message count
\* unchanged and issues no network call.
C1_SingleFlight ==
  [][ /\ Cardinality(inflight') <= 1
      /\ (ev'.type = "submit" /\ inflight # {}) =>
           (Len(messages') = Len(messages) /\ nextRid' = nextRid) ]_vars

\* C2: no two messages of the transcript have the same id.
C2_UniqueIds ==
  \A i, j \in 1 .. Len(messages) : i # j => messages[i].id # messages[j].id

\* C3: isLoading is true exactly in the states where some accepted
\* submission has its user message appended and its reply or error not yet.
C3_LoadingIffOutstanding == isLoading <=> (inflight # {})

\* C4: a submit delivered while idle with a draft that is not blank appends
\* exactly one user message carrying the raw draft, clears the draft, sets
\* isLoading, clears error, and issues one call whose query is the raw
\* draft; no reply of that submission is in the transcript yet.
C4_SubmitAppendsRawDraft ==
  [][ (ev'.type = "submit" /\ Idle /\ ~IsBlank(Draft)) =>
        /\ Extends(messages, messages')
        /\ Last(messages').role = "user"
        /\ Last(messages').content = Draft
        /\ input' = <<>>
        /\ isLoading' = TRUE
        /\ error' = Null
        /\ nextRid' = nextRid + 1
        /\ inflight' = {[rid |-> nextRid', query |-> Draft]}
        /\ \A i \in MessagesOf(nextRid', messages', owner') :
             messages'[i].role = "user" ]_vars

C4_Witness ==
  /\ ev.type = "submit"
  /\ Len(messages) = 3
  /\ messages[2].role = "bot"
  /\ Last(messages).role = "user"
  /\ Last(messages).content = <<"a", " ">>
  /\ input = <<>> /\ isLoading /\ error = Null
  /\ \E req \in inflight : req.query = <<"a", " ">>

\* the failures C5 speaks of, and the text d each carries
C5_Case(o) ==
  \/ o.kind = "reject"
  \/ o.kind = "response" /\ ~o.ok /\ o.body.parses
       /\ o.body.detail # Undefined /\ o.body.detail # <<>>

C5_Text(o) == IF o.kind = "reject" THEN o.description ELSE o.body.detail

\* C5: a submission that fails with a detail string or a transport
\* description d appends exactly one bot message "Error: " + d, sets error
\* to d and isLoading to false; the submission has no other reply.
C5_FailureAppendsError ==
  [][ (ev'.type = "settle" /\ C5_Case(ev'.outcome)) =>
        /\ Extends(messages, messages')
        /\ Last(messages').role = "bot"
        /\ Last(messages').content = ErrorPrefix \o C5_Text(ev'.outcome)
        /\ error' = C5_Text(ev'.outcome)
        /\ isLoading' = FALSE
        /\ Cardinality(MessagesOf(ev'.rid, messages', owner')) = 2
        /\ \A req \in inflight' : req.rid # ev'.rid ]_vars

C5_Witness ==
  /\ ev.type = "settle"
  /\ ev.outcome.kind = "response" /\ ~ev.outcome.ok
  /\ ev.outcome.body.detail = <<"d">>
  /\ Last(messages).content = ErrorPrefix \o <<"d">>
  /\ error = <<"d">>
  /\ ~isLoading

\* C6: a non-success response whose body gives no detail string (missing,
\* empty, or not JSON) yields the generic fallback text, in the transcript
\* and as error.
C6_FallbackWithoutDetail ==
  [][ ( /\ ev'.type = "settle"
        /\ ev'.outcome.kind = "response" /\ ~ev'.outcome.ok
        /\ \/ ~ev'.outcome.body.parses
           \/ ev'.outcome.body.detail = Undefined
           \/ ev'.outcome.body.detail = <<>> ) =>
        /\ Last(messages').content = ErrorPrefix \o UnknownError
        /\ error' = UnknownError ]_vars

\* C7: a success response carrying text r appends exactly one bot message
\* with content r, leaves error null and sets isLoading to false.
C7_SuccessAppendsReply ==
  [][ ( /\ ev'.type = "settle"
        /\ ev'.outcome.kind = "response" /\ ev'.outcome.ok
        /\ ev'.outcome.body.parses
        /\ ev'.outcome.body.response # Undefined ) =>
        /\ Extends(messages, messages')
        /\ Last(messages').role = "bot"
        /\ Last(messages').content = ev'.outcome.body.response
        /\ Cardinality(MessagesOf(ev'.rid, messages', owner')) = 2
        /\ error' = Null
        /\ isLoading' = FALSE ]_vars

\* C8: a submit with a blank draft changes nothing and issues no call.
C8_BlankSubmitIsNoOp ==
  [][ (ev'.type = "submit" /\ IsBlank(Draft)) =>
        UNCHANGED <<messages, input, isLoading, error, inflight, nextRid>> ]_vars

C8_Witness ==
  /\ ev.type = "submit"
  /\ Draft = <<" ">>
  /\ input = <<" ">>
  /\ Len(messages) = 2
  /\ ~isLoading

\* C9: when every call settles, a raised loading flag always falls again
\* and the input control is enabled again.
C9_LoadingFalls == isLoading ~> (~isLoading /\ ~closure.isLoading)

C9_Witness ==
  /\ Len(messages) = 3
  /\ messages[2].content = ErrorPrefix \o <<"n">>
  /\ messages[3].role = "user"
  /\ owner[3] = 2

\* replies are in the order their requests were issued
RepliesInOrder(msgs, own) ==
  \A j \in 1 .. Len(msgs) :
    msgs[j].role = "bot" =>
      \A a \in 1 .. own[j] - 1 :
        \E i \in 1 .. j - 1 : msgs[i].role = "bot" /\ own[i] = a

\* C10: every step leaves the transcript unchanged or appends one message
\* at its end, and replies are appended in the order of their requests.
C10_AppendOnlyInOrder ==
  [][ /\ messages' = messages \/ Extends(messages, messages')
      /\ RepliesInOrder(messages', owner') ]_vars

====
